---- MODULE Spec2Model ----
(***************************************************************************)
(* Model of vision-server/app.py: a FastAPI service that keeps one         *)
(* process-wide diffusion pipeline (PIPELINE), builds it lazily in         *)
(* load_pipeline, and serves two generation endpoints that both end in     *)
(* _run_generation.                                                        *)
(*                                                                         *)
(* Scheduling.  _warm_pipeline, generate and openai_image_endpoint are     *)
(* `async def` coroutines whose bodies contain no `await`: once the event  *)
(* loop starts one of them it runs to its return or raise before any other *)
(* coroutine is started.  The steps inside a handler are kept as separate  *)
(* actions (so that "in flight" and "mid-construction" are states), and    *)
(* LoopFree is the event loop's condition for starting the next handler.   *)
(***************************************************************************)
EXTENDS Integers, Sequences, FiniteSets, TLC

\* ------------------------------------------------------------------ bounds
MaxReq == 2      \* request slots: requests outstanding at the same time
MaxInst == 3     \* pipeline objects from_pretrained may create in one run

\* --------------------------------------------------------- program constants
MAX_EDGE == 1024
MIN_EDGE == 256

\* Optional[...] values: None is the empty set, a present value v is {v}
None == {}
Some(v) == {v}
Value(o) == CHOOSE v \in o : TRUE

\* ----------------------------------------------------------- str.lower()
LowerChar(c) ==
    CASE c = "X" -> "x"
      [] c = "A" -> "a"
      [] OTHER   -> c

RECURSIVE LowerSeq(_)
LowerSeq(s) ==
    IF s = <<>> THEN <<>> ELSE <<LowerChar(Head(s))>> \o LowerSeq(Tail(s))

\* response_format values are kept as whole words; lower() of each word
LowerWord(w) ==
    CASE w = "B64_JSON" -> "b64_json"
      [] w = "B64_Json" -> "b64_json"
      [] OTHER          -> w

\* ------------------------------------------------------- str.split("x")
\* the list of pieces between occurrences of the separator; always non-empty
RECURSIVE SplitAcc(_, _, _)
SplitAcc(s, sep, cur) ==
    IF s = <<>> THEN <<cur>>
    ELSE IF Head(s) = sep THEN <<cur>> \o SplitAcc(Tail(s), sep, <<>>)
    ELSE SplitAcc(Tail(s), sep, Append(cur, Head(s)))

Split(s, sep) == SplitAcc(s, sep, <<>>)

\* ------------------------------------------------------------- int(str)
DigitVal(c) ==
    CASE c = "0" -> 0 [] c = "1" -> 1 [] c = "2" -> 2 [] c = "3" -> 3
      [] c = "4" -> 4 [] c = "5" -> 5 [] c = "6" -> 6 [] c = "7" -> 7
      [] c = "8" -> 8 [] c = "9" -> 9 [] OTHER -> -1

IsDigit(c) == DigitVal(c) >= 0

RECURSIVE StripLeft(_)
StripLeft(s) ==
    IF s # <<>> /\ Head(s) = " " THEN StripLeft(Tail(s)) ELSE s

RECURSIVE StripRight(_)
StripRight(s) ==
    IF s # <<>> /\ s[Len(s)] = " " THEN StripRight(SubSeq(s, 1, Len(s) - 1)) ELSE s

Strip(s) == StripRight(StripLeft(s))

HasSign(s) == s # <<>> /\ Head(s) \in {"+", "-"}

Unsigned(s) == IF HasSign(s) THEN Tail(s) ELSE s

\* digits, with single underscores allowed between two digits
IsDigits(d) ==
    /\ d # <<>>
    /\ \A i \in 1..Len(d) :
          \/ IsDigit(d[i])
          \/ /\ d[i] = "_"
             /\ i > 1 /\ i < Len(d)
             /\ IsDigit(d[i - 1]) /\ IsDigit(d[i + 1])

RECURSIVE DigitsValue(_, _)
DigitsValue(d, acc) ==
    IF d = <<>> THEN acc
    ELSE IF Head(d) = "_" THEN DigitsValue(Tail(d), acc)
    ELSE DigitsValue(Tail(d), 10 * acc + DigitVal(Head(d)))

\* int(s) raises ValueError exactly when ~IsIntLiteral(s)
IsIntLiteral(s) == IsDigits(Unsigned(Strip(s)))

IntValue(s) ==
    LET t == Strip(s)
        v == DigitsValue(Unsigned(t), 0)
    IN  IF HasSign(t) /\ Head(t) = "-" THEN 0 - v ELSE v

\* -------------------------------------------------------------- _parse_size
\* the range test of _parse_size
SizeOutOfRange(width, height) ==
    width < MIN_EDGE \/ height < MIN_EDGE \/ width > MAX_EDGE \/ height > MAX_EDGE

\* the try block: unpacking needs exactly two pieces and both must parse
SizeParses(size) ==
    LET parts == Split(LowerSeq(size), "x")
    IN  /\ Len(parts) = 2
        /\ IsIntLiteral(parts[1])
        /\ IsIntLiteral(parts[2])

\* result of _parse_size: a (width, height) pair or the HTTPException raised
_parse_size(size) ==
    IF ~SizeParses(size)
    THEN [ok |-> FALSE, status |-> 400, detail |-> "size must look like 512x512",
          width |-> 0, height |-> 0]
    ELSE LET parts == Split(LowerSeq(size), "x")
             width == IntValue(parts[1])
             height == IntValue(parts[2])
         IN  IF SizeOutOfRange(width, height)
             THEN [ok |-> FALSE, status |-> 400,
                   detail |-> "size must stay within 256-MAX_EDGE px per dimension",
                   width |-> width, height |-> height]
             ELSE [ok |-> TRUE, status |-> 0, detail |-> "",
                   width |-> width, height |-> height]

\* ------------------------------------------------------------ request data
\* prompts and size strings are sequences of one-character strings
Chars(w) ==
    CASE w = "cat"         -> <<"c", "a", "t">>
      [] w = ""            -> <<>>
      [] w = "512x512"     -> <<"5", "1", "2", "x", "5", "1", "2">>
      [] w = "256X1024"    -> <<"2", "5", "6", "X", "1", "0", "2", "4">>
      [] w = "abcx512"     -> <<"a", "b", "c", "x", "5", "1", "2">>
      [] w = "4096x512"    -> <<"4", "0", "9", "6", "x", "5", "1", "2">>
      [] w = "512x255"     -> <<"5", "1", "2", "x", "2", "5", "5">>
      [] w = "512"         -> <<"5", "1", "2">>
      [] w = "512x512x512" -> <<"5", "1", "2", "x", "5", "1", "2", "x", "5", "1", "2">>
      [] w = " 512 x 5_12" -> <<" ", "5", "1", "2", " ", "x", " ", "5", "_", "1", "2">>

\* variant: width and height declared without le=MAX_EDGE
ValidGenerateRequest_no_le(g) ==
    /\ Len(g.prompt) >= 1
    /\ g.guidance_scale >= 0 /\ g.guidance_scale <= 20
    /\ g.num_inference_steps >= 1 /\ g.num_inference_steps <= 100
    /\ (g.seed # None => Value(g.seed) >= 0)
    /\ g.width >= MIN_EDGE
    /\ g.height >= MIN_EDGE

\* GenerateRequest: the Field bounds of the native schema
ValidGenerateRequest(g) ==
    /\ Len(g.prompt) >= 1
    /\ g.guidance_scale >= 0 /\ g.guidance_scale <= 20
    /\ g.num_inference_steps >= 1 /\ g.num_inference_steps <= 100
    /\ (g.seed # None => Value(g.seed) >= 0)
    /\ g.width >= MIN_EDGE /\ g.width <= MAX_EDGE
    /\ g.height >= MIN_EDGE /\ g.height <= MAX_EDGE

\* GenerateRequest.model_fields[...].default
GenerateDefaults ==
    [guidance_scale |-> 7, num_inference_steps |-> 25, width |-> 512, height |-> 512]

\* OpenAIImageRequest: the Field bounds of the compatible schema
ValidOpenAIImageRequest(b) ==
    /\ b.n >= 1 /\ b.n <= 1
    /\ (b.guidance_scale # None =>
            Value(b.guidance_scale) >= 0 /\ Value(b.guidance_scale) <= 20)
    /\ (b.num_inference_steps # None =>
            Value(b.num_inference_steps) >= 1 /\ Value(b.num_inference_steps) <= 100)
    /\ (b.seed # None => Value(b.seed) >= 0)

NativeBase ==
    [prompt |-> Chars("cat"), guidance_scale |-> 7, num_inference_steps |-> 25,
     seed |-> None, width |-> 512, height |-> 512]

NativeBodies ==
    {NativeBase,
     [NativeBase EXCEPT !.width = 255],
     [NativeBase EXCEPT !.width = 256, !.height = 1024],
     [NativeBase EXCEPT !.width = 1025],
     [NativeBase EXCEPT !.height = 4096],
     [NativeBase EXCEPT !.prompt = Chars("")],
     [NativeBase EXCEPT !.seed = Some(-1)],
     [NativeBase EXCEPT !.num_inference_steps = 101]}

OpenAIBase ==
    [prompt |-> Chars("cat"), size |-> Chars("512x512"), n |-> 1,
     response_format |-> "b64_json", guidance_scale |-> None,
     num_inference_steps |-> None, seed |-> None]

OpenAIBodies ==
    {OpenAIBase,
     [OpenAIBase EXCEPT !.n = 2],
     [OpenAIBase EXCEPT !.n = 0],
     [OpenAIBase EXCEPT !.response_format = "url"],
     [OpenAIBase EXCEPT !.response_format = "B64_JSON"],
     [OpenAIBase EXCEPT !.size = Chars("256X1024")],
     [OpenAIBase EXCEPT !.size = Chars("abcx512")],
     [OpenAIBase EXCEPT !.size = Chars("4096x512")],
     [OpenAIBase EXCEPT !.size = Chars("512x255")],
     [OpenAIBase EXCEPT !.size = Chars("512")],
     [OpenAIBase EXCEPT !.size = Chars("512x512x512")],
     [OpenAIBase EXCEPT !.size = Chars(" 512 x 5_12")],
     [OpenAIBase EXCEPT !.prompt = Chars("")],
     [OpenAIBase EXCEPT !.prompt = Chars(""), !.size = Chars("abcx512")],
     [OpenAIBase EXCEPT !.n = 2, !.response_format = "url"],
     [OpenAIBase EXCEPT !.guidance_scale = Some(20), !.num_inference_steps = Some(100),
                        !.seed = Some(7)],
     [OpenAIBase EXCEPT !.guidance_scale = Some(21)]}

NoBody == [kind |-> "none"]
NoReq == [kind |-> "none"]

\* ----------------------------------------------------------------- responses
NoResp == [status |-> 0, detail |-> "", fault |-> FALSE]

\* raise HTTPException(status_code, detail)
HTTPException(status, detail) == [status |-> status, detail |-> detail, fault |-> FALSE]

\* an exception that leaves the handler: the framework answers 500 itself
Unhandled == [status |-> 500, detail |-> "Internal Server Error", fault |-> TRUE]

\* FastAPI's answer when the body does not satisfy the endpoint's model
RequestValidationError == [status |-> 422, detail |-> "validation error", fault |-> FALSE]

OK200 == [status |-> 200, detail |-> "image", fault |-> FALSE]

\* str(exc) of the exceptions the pipeline call raises
PipelineErrors == {"CUDA out of memory", "NaN in latents"}

\* ---------------------------------------------- openai_image_endpoint, 196-213
\* variant: the response format is not looked at
FormatSupported_any(b) == TRUE

\* line 196: the response format the endpoint serves
FormatSupported(b) == LowerWord(b.response_format) = "b64_json"

\* lines 196-213 as a function of the validated body: the HTTPException
\* raised, the pydantic ValidationError escaping the handler, or the
\* GenerateRequest handed to _run_generation
Normalize(b) ==
    IF ~FormatSupported(b)
    THEN [outcome |-> "reject",
          resp |-> HTTPException(400, "Only response_format=b64_json is supported"),
          req |-> NoReq]
    ELSE LET sz == _parse_size(b.size)
             g  == [prompt |-> b.prompt,
                    guidance_scale |->
                        IF b.guidance_scale # None THEN Value(b.guidance_scale)
                        ELSE GenerateDefaults.guidance_scale,
                    num_inference_steps |->
                        IF b.num_inference_steps # None THEN Value(b.num_inference_steps)
                        ELSE GenerateDefaults.num_inference_steps,
                    seed |-> b.seed,
                    width |-> sz.width,
                    height |-> sz.height]
         IN  IF ~sz.ok
             THEN [outcome |-> "reject",
                   resp |-> HTTPException(sz.status, sz.detail),
                   req |-> NoReq]
             ELSE IF ~ValidGenerateRequest(g)
             THEN [outcome |-> "fault", resp |-> Unhandled, req |-> NoReq]
             ELSE [outcome |-> "ok", resp |-> NoResp, req |-> g]

\* ------------------------------------------------------------------- state
Reqs == 1..MaxReq
Warm == 0                       \* the startup hook _warm_pipeline
Tasks == {Warm} \cup Reqs

\* optional attributes load_pipeline probes with hasattr
Attrs == {"safety_checker", "requires_safety_checker",
          "enable_vae_tiling", "enable_attention_slicing"}

\* attribute sets of the pipeline classes AutoPipelineForText2Image may return
CapSets == {Attrs, {}}

\* ENABLE_SAFETY_CHECKER, ENABLE_TILING, ENABLE_ATTENTION_SLICING
Configs ==
    {[safety |-> FALSE, tiling |-> TRUE, slicing |-> TRUE],      \* the defaults
     [safety |-> TRUE, tiling |-> TRUE, slicing |-> FALSE],
     [safety |-> FALSE, tiling |-> FALSE, slicing |-> FALSE]}

VARIABLES
    cfg,        \* the three environment toggles, read at import
    caps,       \* attributes of the class from_pretrained instantiates for MODEL_ID
    PIPELINE,   \* the module global: 0 is None, i > 0 is the i-th object created
    inst,       \* inst[i]: state of the i-th pipeline object
    pc,         \* pc[t]: where task t is
    endpoint,   \* endpoint[r]: the handler request r is in, up to its call of
                \* _run_generation ("native", "openai"; "" otherwise)
    body,       \* body[r]: the request body, until the handler has used it
    req,        \* req[r]: the GenerateRequest given to _run_generation
    pipe,       \* pipe[r]: what load_pipeline returned to request r (0: nothing yet)
    resp,       \* resp[r]: the HTTP response of request r
    cold,       \* cold[r]: pending request r was received while PIPELINE was None
    touched,    \* touched[r]: request r has called load_pipeline
    exc,        \* exc[r]: message of the exception the pipeline call raised for r
    ready       \* first handle load_pipeline returned in this process (0: none)

vars == <<cfg, caps, PIPELINE, inst, pc, endpoint, body, req, pipe, resp, cold,
          touched, exc, ready>>

\* positions inside load_pipeline, by source line
LoadPcs == {"L35", "L50", "L54", "L59", "L60", "L61", "L63", "L65"}
\* positions inside _run_generation after load_pipeline returned
RunPcs == {"L113", "in_pipe", "L129"}
\* a task at one of these holds the event loop
ActivePcs == LoadPcs \cup RunPcs \cup {"validate", "L196"}

\* variant: handlers declared with plain `def`, which the framework runs on
\* worker threads, so a handler starts whatever the others are doing
LoopFree_threads == TRUE

\* the event loop starts a coroutine only when no other one is running:
\* none of the handlers awaits, so none gives the loop back before it ends
LoopFree == \A t \in Tasks : pc[t] \notin ActivePcs

\* the server handles requests once startup is over
Serving == pc[Warm] = "done"

\* the process is gone once the startup hook raised
Alive == pc[Warm] # "failed"

\* a freshly loaded pipeline object: on the CPU, progress bar on
NewPipeline ==
    [device |-> "cpu",
     safety_checker |-> "safety_checker" \in caps,
     requires_safety_checker |-> "requires_safety_checker" \in caps,
     progress_bar |-> TRUE,
     vae_tiling |-> FALSE,
     attention_slicing |-> FALSE]

\* every construction step of load_pipeline has been applied to object p
Configured(p) ==
    /\ p.device = "cuda"
    /\ ~p.progress_bar
    /\ (~cfg.safety => ~p.safety_checker /\ ~p.requires_safety_checker)
    /\ (cfg.tiling /\ "enable_vae_tiling" \in caps => p.vae_tiling)
    /\ (cfg.slicing /\ "enable_attention_slicing" \in caps => p.attention_slicing)

Init ==
    /\ cfg \in Configs
    /\ caps \in CapSets
    /\ PIPELINE = 0
    /\ inst = <<>>
    \* the startup hook is about to run, or startup is over without it
    \* (the server was started with the lifespan protocol off)
    /\ pc \in {[t \in Tasks |-> IF t = Warm THEN w ELSE "idle"] : w \in {"queued", "done"}}
    /\ endpoint = [r \in Reqs |-> ""]
    /\ body = [r \in Reqs |-> NoBody]
    /\ req = [r \in Reqs |-> NoReq]
    /\ pipe = [r \in Reqs |-> 0]
    /\ resp = [r \in Reqs |-> NoResp]
    /\ cold = [r \in Reqs |-> FALSE]
    /\ touched = [r \in Reqs |-> FALSE]
    /\ exc = [r \in Reqs |-> ""]
    /\ ready = 0

\* ----------------------------------------------------------------- arrivals
\* a request reaches the server and waits for the event loop
Receive(r) ==
    /\ Alive
    /\ pc[r] = "idle"
    /\ \A q \in Reqs : q < r => pc[q] # "idle"       \* lowest free slot
    /\ pc' = [pc EXCEPT ![r] = "queued"]
    /\ cold' = [cold EXCEPT ![r] = (PIPELINE = 0)]
    /\ UNCHANGED <<cfg, caps, PIPELINE, inst, endpoint, body, req, pipe, resp, touched, exc, ready>>

\* the client has its response; the slot is free for another request
Retire(r) ==
    /\ pc[r] = "done"
    /\ pc' = [pc EXCEPT ![r] = "idle"]
    /\ pipe' = [pipe EXCEPT ![r] = 0]
    /\ resp' = [resp EXCEPT ![r] = NoResp]
    /\ touched' = [touched EXCEPT ![r] = FALSE]
    /\ exc' = [exc EXCEPT ![r] = ""]
    /\ UNCHANGED <<cfg, caps, PIPELINE, inst, endpoint, body, req, cold, ready>>

\* request r ends with response x; the handler's locals are gone
Respond(r, x) ==
    /\ pc' = [pc EXCEPT ![r] = "done"]
    /\ resp' = [resp EXCEPT ![r] = x]
    /\ endpoint' = [endpoint EXCEPT ![r] = ""]
    /\ body' = [body EXCEPT ![r] = NoBody]
    /\ req' = [req EXCEPT ![r] = NoReq]
    /\ cold' = [cold EXCEPT ![r] = FALSE]

\* a task ends with an exception nobody catches: a request gets the
\* framework's 500, the startup hook takes the process down
Raise(t) ==
    IF t = Warm
    THEN /\ pc' = [pc EXCEPT ![t] = "failed"]
         /\ UNCHANGED <<resp, endpoint, body, req, cold>>
    ELSE Respond(t, Unhandled)

\* ------------------------------------------------------------ _warm_pipeline
_warm_pipeline ==
    /\ pc[Warm] = "queued"
    /\ LoopFree
    /\ pc' = [pc EXCEPT ![Warm] = "L35"]
    /\ UNCHANGED <<cfg, caps, PIPELINE, inst, endpoint, body, req, pipe, resp, cold, touched, exc, ready>>

\* ------------------------------------------------------------------ generate
\* POST /generate is taken up by the event loop
generate_request(r, b) ==
    /\ pc[r] = "queued"
    /\ Serving
    /\ LoopFree
    /\ pc' = [pc EXCEPT ![r] = "validate"]
    /\ endpoint' = [endpoint EXCEPT ![r] = "native"]
    /\ body' = [body EXCEPT ![r] = b]
    /\ UNCHANGED <<cfg, caps, PIPELINE, inst, req, pipe, resp, cold, touched, exc, ready>>

\* the body is validated against GenerateRequest, then the handler calls
\* _run_generation, whose first statement calls load_pipeline
generate(r) ==
    /\ pc[r] = "validate"
    /\ endpoint[r] = "native"
    /\ IF ValidGenerateRequest(body[r])
       THEN /\ pc' = [pc EXCEPT ![r] = "L35"]
            /\ req' = [req EXCEPT ![r] = body[r]]
            /\ body' = [body EXCEPT ![r] = NoBody]
            /\ touched' = [touched EXCEPT ![r] = TRUE]
            /\ endpoint' = [endpoint EXCEPT ![r] = ""]
            /\ UNCHANGED <<resp, cold>>
       ELSE /\ Respond(r, RequestValidationError)
            /\ UNCHANGED touched
    /\ UNCHANGED <<cfg, caps, PIPELINE, inst, pipe, exc, ready>>

\* ------------------------------------------------------ openai_image_endpoint
\* POST /v1/images/generations is taken up by the event loop
openai_request(r, b) ==
    /\ pc[r] = "queued"
    /\ Serving
    /\ LoopFree
    /\ pc' = [pc EXCEPT ![r] = "validate"]
    /\ endpoint' = [endpoint EXCEPT ![r] = "openai"]
    /\ body' = [body EXCEPT ![r] = b]
    /\ UNCHANGED <<cfg, caps, PIPELINE, inst, req, pipe, resp, cold, touched, exc, ready>>

\* the body is validated against OpenAIImageRequest before the handler starts
openai_validate(r) ==
    /\ pc[r] = "validate"
    /\ endpoint[r] = "openai"
    /\ IF ValidOpenAIImageRequest(body[r])
       THEN /\ pc' = [pc EXCEPT ![r] = "L196"]
            /\ UNCHANGED <<endpoint, body, req, resp, cold>>
       ELSE Respond(r, RequestValidationError)
    /\ UNCHANGED <<cfg, caps, PIPELINE, inst, pipe, touched, exc, ready>>

\* variant: the handler fetches the pipeline before it looks at the request
openai_image_endpoint_eager(r) ==
    /\ pc[r] = "L196"
    /\ touched' = [touched EXCEPT ![r] = TRUE]
    /\ LET nz == Normalize(body[r])
       IN  IF nz.outcome = "ok"
           THEN /\ pc' = [pc EXCEPT ![r] = "L35"]
                /\ req' = [req EXCEPT ![r] = nz.req]
                /\ body' = [body EXCEPT ![r] = NoBody]
                /\ endpoint' = [endpoint EXCEPT ![r] = ""]
                /\ UNCHANGED <<resp, cold>>
           ELSE Respond(r, nz.resp)
    /\ UNCHANGED <<cfg, caps, PIPELINE, inst, pipe, exc, ready>>

\* lines 196-214: reject, fault, or call _run_generation with the payload
openai_image_endpoint(r) ==
    /\ pc[r] = "L196"
    /\ LET nz == Normalize(body[r])
       IN  IF nz.outcome = "ok"
           THEN /\ pc' = [pc EXCEPT ![r] = "L35"]
                /\ req' = [req EXCEPT ![r] = nz.req]
                /\ body' = [body EXCEPT ![r] = NoBody]
                /\ touched' = [touched EXCEPT ![r] = TRUE]
                /\ endpoint' = [endpoint EXCEPT ![r] = ""]
                /\ UNCHANGED <<resp, cold>>
           ELSE /\ Respond(r, nz.resp)
                /\ UNCHANGED touched
    /\ UNCHANGED <<cfg, caps, PIPELINE, inst, pipe, exc, ready>>

\* --------------------------------------------------------------- load_pipeline
\* variant: no early return, every call builds a pipeline
AlreadyLoaded_never == FALSE

\* line 35: the singleton already exists
AlreadyLoaded == PIPELINE # 0

\* `return PIPELINE` back into the caller: the startup hook drops the value
\* and is finished, a request goes on in _run_generation with pipe bound to it
ReturnPipeline(t) ==
    /\ pc' = [pc EXCEPT ![t] = IF t = Warm THEN "done" ELSE "L113"]
    /\ pipe' = IF t = Warm THEN pipe ELSE [pipe EXCEPT ![t] = PIPELINE]
    /\ ready' = IF ready = 0 THEN PIPELINE ELSE ready

\* lines 35-48: early return, or go on to build the pipeline
load_check(t) ==
    /\ pc[t] = "L35"
    /\ IF AlreadyLoaded
       THEN ReturnPipeline(t)
       ELSE /\ pc' = [pc EXCEPT ![t] = "L50"]
            /\ UNCHANGED <<pipe, ready>>
    /\ UNCHANGED <<cfg, caps, PIPELINE, inst, endpoint, body, req, resp, cold, touched, exc>>

\* line 50: from_pretrained returns a new object, which is bound to the global
load_from_pretrained(t) ==
    /\ pc[t] = "L50"
    /\ Len(inst) < MaxInst
    /\ inst' = Append(inst, NewPipeline)
    /\ PIPELINE' = Len(inst) + 1
    /\ pc' = [pc EXCEPT ![t] = "L54"]
    /\ UNCHANGED <<cfg, caps, endpoint, body, req, pipe, resp, cold, touched, exc, ready>>

\* line 50: from_pretrained raises (weights missing, gated repo, ...); the
\* assignment does not happen
load_from_pretrained_raises(t) ==
    /\ pc[t] = "L50"
    /\ Raise(t)
    /\ UNCHANGED <<cfg, caps, PIPELINE, inst, pipe, touched, exc, ready>>

\* lines 54-58
load_safety(t) ==
    /\ pc[t] = "L54"
    /\ inst' = IF cfg.safety THEN inst
               ELSE [inst EXCEPT ![PIPELINE].safety_checker = FALSE,
                                 ![PIPELINE].requires_safety_checker = FALSE]
    /\ pc' = [pc EXCEPT ![t] = "L59"]
    /\ UNCHANGED <<cfg, caps, PIPELINE, endpoint, body, req, pipe, resp, cold, touched, exc, ready>>

\* line 59: .to("cuda") moves the object and returns it
load_to_cuda(t) ==
    /\ pc[t] = "L59"
    /\ inst' = [inst EXCEPT ![PIPELINE].device = "cuda"]
    /\ PIPELINE' = PIPELINE
    /\ pc' = [pc EXCEPT ![t] = "L60"]
    /\ UNCHANGED <<cfg, caps, endpoint, body, req, pipe, resp, cold, touched, exc, ready>>

\* line 59: .to("cuda") raises (no device, out of memory)
load_to_cuda_raises(t) ==
    /\ pc[t] = "L59"
    /\ Raise(t)
    /\ UNCHANGED <<cfg, caps, PIPELINE, inst, pipe, touched, exc, ready>>

\* line 60
load_progress(t) ==
    /\ pc[t] = "L60"
    /\ inst' = [inst EXCEPT ![PIPELINE].progress_bar = FALSE]
    /\ pc' = [pc EXCEPT ![t] = "L61"]
    /\ UNCHANGED <<cfg, caps, PIPELINE, endpoint, body, req, pipe, resp, cold, touched, exc, ready>>

\* lines 61-62
load_tiling(t) ==
    /\ pc[t] = "L61"
    /\ inst' = IF cfg.tiling /\ "enable_vae_tiling" \in caps
               THEN [inst EXCEPT ![PIPELINE].vae_tiling = TRUE]
               ELSE inst
    /\ pc' = [pc EXCEPT ![t] = "L63"]
    /\ UNCHANGED <<cfg, caps, PIPELINE, endpoint, body, req, pipe, resp, cold, touched, exc, ready>>

\* line 62: enable_vae_tiling raises
load_tiling_raises(t) ==
    /\ pc[t] = "L61"
    /\ cfg.tiling /\ "enable_vae_tiling" \in caps
    /\ Raise(t)
    /\ UNCHANGED <<cfg, caps, PIPELINE, inst, pipe, touched, exc, ready>>

\* lines 63-64
load_slicing(t) ==
    /\ pc[t] = "L63"
    /\ inst' = IF cfg.slicing /\ "enable_attention_slicing" \in caps
               THEN [inst EXCEPT ![PIPELINE].attention_slicing = TRUE]
               ELSE inst
    /\ pc' = [pc EXCEPT ![t] = "L65"]
    /\ UNCHANGED <<cfg, caps, PIPELINE, endpoint, body, req, pipe, resp, cold, touched, exc, ready>>

\* line 64: enable_attention_slicing raises
load_slicing_raises(t) ==
    /\ pc[t] = "L63"
    /\ cfg.slicing /\ "enable_attention_slicing" \in caps
    /\ Raise(t)
    /\ UNCHANGED <<cfg, caps, PIPELINE, inst, pipe, touched, exc, ready>>

\* line 65
load_return(t) ==
    /\ pc[t] = "L65"
    /\ ReturnPipeline(t)
    /\ UNCHANGED <<cfg, caps, PIPELINE, inst, endpoint, body, req, resp, cold, touched, exc>>

load_pipeline(t) ==
    \/ load_check(t)
    \/ load_from_pretrained(t)
    \/ load_from_pretrained_raises(t)
    \/ load_safety(t)
    \/ load_to_cuda(t)
    \/ load_to_cuda_raises(t)
    \/ load_progress(t)
    \/ load_tiling(t)
    \/ load_tiling_raises(t)
    \/ load_slicing(t)
    \/ load_slicing_raises(t)
    \/ load_return(t)

\* ------------------------------------------------------------- _run_generation
\* lines 113-119: build the generator and enter the pipeline call
pipe_call(r) ==
    /\ pc[r] = "L113"
    /\ pc' = [pc EXCEPT ![r] = "in_pipe"]
    /\ UNCHANGED <<cfg, caps, PIPELINE, inst, endpoint, body, req, pipe, resp, cold, touched, exc, ready>>

\* lines 131-136: the call returned; encode the image and answer
pipe_returns(r) ==
    /\ pc[r] = "in_pipe"
    /\ Respond(r, OK200)
    /\ UNCHANGED <<cfg, caps, PIPELINE, inst, pipe, touched, exc, ready>>

\* line 119: the call raises exc
pipe_raises(r, msg) ==
    /\ pc[r] = "in_pipe"
    /\ pc' = [pc EXCEPT ![r] = "L129"]
    /\ exc' = [exc EXCEPT ![r] = msg]
    /\ UNCHANGED <<cfg, caps, PIPELINE, inst, endpoint, body, req, pipe, resp, cold, touched, ready>>

\* variant: the 500 does not carry the exception's text
InferenceFailure_generic(r) == HTTPException(500, "Internal Server Error")

\* lines 128-129: what the except clause makes of exc
InferenceFailure(r) == HTTPException(500, exc[r])

\* lines 128-129: the exception is caught and answered
pipe_except(r) ==
    /\ pc[r] = "L129"
    /\ Respond(r, InferenceFailure(r))
    /\ UNCHANGED <<cfg, caps, PIPELINE, inst, pipe, touched, exc, ready>>

_run_generation(r) ==
    \/ pipe_call(r)
    \/ pipe_returns(r)
    \/ \E msg \in PipelineErrors : pipe_raises(r, msg)
    \/ pipe_except(r)

\* ------------------------------------------------------------- specification
Next ==
    \/ _warm_pipeline
    \/ \E r \in Reqs : Receive(r)
    \/ \E r \in Reqs : \E b \in NativeBodies : generate_request(r, b)
    \/ \E r \in Reqs : generate(r)
    \/ \E r \in Reqs : \E b \in OpenAIBodies : openai_request(r, b)
    \/ \E r \in Reqs : openai_validate(r)
    \/ \E r \in Reqs : openai_image_endpoint(r)
    \/ \E t \in Tasks : load_pipeline(t)
    \/ \E r \in Reqs : _run_generation(r)
    \/ \E r \in Reqs : Retire(r)

Spec == Init /\ [][Next]_vars

\* ------------------------------------------------------------------ typing
TypeOK ==
    /\ cfg \in Configs
    /\ caps \in CapSets
    /\ PIPELINE \in 0..MaxInst
    /\ Len(inst) <= MaxInst
    /\ \A r \in Reqs : pipe[r] \in 0..MaxInst
    /\ ready \in 0..MaxInst

\* ===================================================================== claims

\* C1: under every interleaving of first calls to load_pipeline that the
\* startup hook and the request handlers can produce, at most one pipeline
\* object is ever created by from_pretrained, and every handle load_pipeline
\* hands to a caller is that one object, the one the global holds.
C1_ConstructedOnce ==
    /\ Len(inst) <= 1
    /\ PIPELINE <= 1
    /\ \A r \in Reqs : pipe[r] # 0 => pipe[r] = 1 /\ pipe[r] = PIPELINE

\* a request that was received while PIPELINE was None and waited while another
\* caller built the pipeline now holds the same object as a finished request
C1_Witness ==
    \E r1, r2 \in Reqs :
        /\ r1 # r2
        /\ pc[r1] = "done" /\ resp[r1] = OK200 /\ pipe[r1] = 1
        /\ cold[r2] /\ pc[r2] \in RunPcs /\ pipe[r2] = 1
        /\ Len(inst) = 1

\* C2: a load_pipeline call made for a request that ends in an exception, at
\* whichever construction step, is answered as an error and leaves PIPELINE
\* unset, so that the next call builds the pipeline anew.
C2_FailedLoadLeavesUnset ==
    [][\A r \in Reqs :
          pc[r] \in LoadPcs /\ pc'[r] = "done"
              => resp'[r].status = 500 /\ PIPELINE' = 0]_vars

\* C3: once load_pipeline has returned a handle, the global is that handle in
\* every later state, no further pipeline object is created, and every handle
\* a request holds is that one.
C3_ReadyTerminal ==
    ready # 0 =>
        /\ PIPELINE = ready
        /\ Len(inst) = ready
        /\ \A r \in Reqs : pipe[r] \in {0, ready}

\* after a request whose pipeline call failed, a later request that arrived
\* with the pipeline in place got the same handle from load_pipeline
C3_Witness ==
    \E r1, r2 \in Reqs :
        /\ r1 # r2
        /\ ready # 0
        /\ pc[r1] = "done" /\ exc[r1] # "" /\ pipe[r1] = ready
        /\ pc[r2] = "L113" /\ ~cold[r2] /\ pipe[r2] = ready

\* C4: a request whose pipeline call raised ends as HTTP 500 whose detail is
\* the message of that exception, not as an unhandled fault, and the global
\* still holds the handle the request used.
C4_InferenceFailureLocal ==
    \A r \in Reqs :
        pc[r] = "done" /\ exc[r] # "" =>
            /\ resp[r].status = 500
            /\ resp[r].detail = exc[r]
            /\ ~resp[r].fault
            /\ PIPELINE = pipe[r]

\* one request has failed in the pipeline call and a later one is inside its
\* own call on the same handle, from where it can return an image
C4_Witness ==
    \E r1, r2 \in Reqs :
        /\ r1 # r2
        /\ pc[r1] = "done" /\ exc[r1] \in PipelineErrors /\ resp[r1].status = 500
        /\ pc[r2] = "in_pipe" /\ pipe[r2] = pipe[r1] /\ pipe[r2] = PIPELINE
        /\ ENABLED pipe_returns(r2)

\* C5: a request answered 400 or 422 has never called load_pipeline and holds
\* no pipeline handle.
C5_RejectedNeverTouches ==
    \A r \in Reqs :
        pc[r] = "done" /\ resp[r].status \in {400, 422} =>
            ~touched[r] /\ pipe[r] = 0

\* startup did not run the hook, a request was rejected with 400, and there is
\* still no pipeline
C5_Witness ==
    \E r \in Reqs :
        /\ pc[r] = "done" /\ resp[r].status = 400
        /\ PIPELINE = 0 /\ Len(inst) = 0 /\ ready = 0

\* the size strings of OpenAIBodies that are two integers within
\* [256, MAX_EDGE] around an "x" of either case
GoodSizes == {Chars("512x512"), Chars("256X1024"), Chars(" 512 x 5_12")}

C7_DimensionsInRange ==
    \A r \in Reqs :
        pc[r] \in LoadPcs \cup RunPcs =>
            /\ req[r].width \in MIN_EDGE..MAX_EDGE
            /\ req[r].height \in MIN_EDGE..MAX_EDGE

\* a pipeline call is running with both bounds of the range as dimensions
C7_Witness ==
    \E r \in Reqs :
        pc[r] = "in_pipe" /\ req[r].width = MIN_EDGE /\ req[r].height = MAX_EDGE

\* C8: a request that ends without having reached the executor was turned
\* away as a client error (400 or 422), never as a server-side fault, and a
\* request that did reach the executor carries a valid GenerateRequest.
C8_NormalizationNeverFaults ==
    \A r \in Reqs :
        /\ (pc[r] = "done" /\ ~touched[r] => resp[r].status \in {400, 422})
        /\ (pc[r] \in LoadPcs \cup RunPcs => ValidGenerateRequest(req[r]))

\* C9: at most one pipeline call is in progress at any time.
C9_OneCallInFlight ==
    Cardinality({r \in Reqs : pc[r] = "in_pipe"}) <= 1

\* a pipeline call is in progress while another request is waiting
C9_Witness ==
    \E r1, r2 \in Reqs : pc[r1] = "in_pipe" /\ pc[r2] = "queued"

\* C10: every handle load_pipeline has returned to a request is a pipeline on
\* which all construction steps have been carried out.
C10_ReturnedHandleConfigured ==
    \A r \in Reqs : pipe[r] # 0 => Configured(inst[pipe[r]])

====
